---------------------------- MODULE Spec2Model ----------------------------
(***************************************************************************)
(* A model of the device-side OTA client of                                *)
(* services/platform-lib/internal/ota/arduino_client (OTAClient.h/.cpp):   *)
(* the client object's fields, the public operations checkForUpdate,       *)
(* performUpdate and checkAndUpdate, and the private stages they call      *)
(* (reportStatus, downloadFirmware, verifyHash, verifySignature,           *)
(* installFirmware).  The control plane, the firmware server, the heap and *)
(* the flash installer are the environment: every answer they give is      *)
(* drawn from a small set.                                                 *)
(*                                                                         *)
(* Strings whose characters matter (hex digests, base64 signatures) are    *)
(* sequences of one-character strings; the other strings are TLA+ strings. *)
(***************************************************************************)
EXTENDS Integers, Sequences, FiniteSets, TLC

(***************************************************************************)
(* Bounds of the model.                                                    *)
(***************************************************************************)
\* Longest firmware image, declared content length and binary_size, in bytes.
MaxLen == 2
\* The server stops offering bytes once this many have been read.
MaxRead == 3

(***************************************************************************)
(* Program constants.                                                      *)
(***************************************************************************)
OTA_ERROR_NONE == 0
OTA_ERROR_NO_UPDATE == 1
OTA_ERROR_NETWORK == 2
OTA_ERROR_DOWNLOAD == 3
OTA_ERROR_VERIFICATION == 4
OTA_ERROR_INSTALLATION == 5
OTA_ERROR_INVALID_RESPONSE == 6

OTA_STATUS_DOWNLOADING == "downloading"
OTA_STATUS_INSTALLING == "installing"
OTA_STATUS_COMPLETED == "completed"
OTA_STATUS_FAILED == "failed"

HTTP_CODE_OK == 200
HTTP_CODE_NOT_FOUND == 404
\* Another status code, standing for every code that is neither 200 nor 404.
HTTP_CODE_OTHER == 500

\* sizeof(buff) in downloadFirmware: the most one read copies.
BuffSize == 128

\* The default of reportStatus's errorMessage parameter.
NullMessage == "(nullptr)"

(***************************************************************************)
(* Strings: hex digests and base64 signatures.                             *)
(***************************************************************************)
EmptyString == << >>

\* The firmware images a server can stream: "a" is the published image,
\* "b" a different one.  An image of n bytes is the pair (name, n).
Images == {"a", "b"}

DigitChar(n) == IF n \in 0..9 THEN <<"0","1","2","3","4","5","6","7","8","9">>[n + 1] ELSE "f"

\* SHA-256 over the first `size` bytes of `data`: an injective digest.
computeSHA256(data, size) == [img |-> data, len |-> size]

\* The sprintf("%02x") loop of verifyHash: the digest as lowercase hex.
HexString(hash) == <<hash.img, DigitChar(hash.len)>>

ToLowerChar(c) == CASE c = "A" -> "a" [] c = "B" -> "b" [] c = "F" -> "f" [] OTHER -> c

ToUpperChar(c) == CASE c = "a" -> "A" [] c = "b" -> "B" [] c = "f" -> "F" [] OTHER -> c

UpperCase(s) == [i \in 1..Len(s) |-> ToUpperChar(s[i])]

\* String::equalsIgnoreCase.
equalsIgnoreCase(s, t) ==
    /\ Len(s) = Len(t)
    /\ \A i \in 1..Len(s) : ToLowerChar(s[i]) = ToLowerChar(t[i])

\* The signature bytes the holder of the private key produces over a digest.
SignatureBytes(hash) == <<"s", hash.img, DigitChar(hash.len)>>

\* The base64 text of signature bytes: padded with "=".
Base64Text(bytes) == Append(bytes, "=")

\* base64Decode: the bytes of a base64 text (padding carries no bytes).
base64Decode(input) == SelectSeq(input, LAMBDA c : c # "=")

(***************************************************************************)
(* The values the environment draws from.                                  *)
(***************************************************************************)
ReleaseIDs == {"", "r1"}
BinaryURLs == {"", "https://x/fw.bin"}
Sizes == 0..MaxLen
HashStrings ==
    {EmptyString}
        \cup {HexString(computeSHA256("a", n)) : n \in 1..MaxLen}
        \cup {UpperCase(HexString(computeSHA256("a", n))) : n \in 1..MaxLen}
Signatures ==
    {EmptyString, <<"=">>}
        \cup {Base64Text(SignatureBytes(computeSHA256("a", n))) : n \in 1..MaxLen}
PublicKeys == {"pem", "garbage"}

\* The FirmwareUpdate structs a check response can be parsed into.
Documents ==
    [releaseID : ReleaseIDs, binaryURL : BinaryURLs, binaryHash : HashStrings,
     binarySize : Sizes, signature : Signatures]

\* The FirmwareUpdate structs a caller hands to performUpdate.
Descriptors == {d \in Documents : d.releaseID # "" /\ d.binaryURL # ""}

\* A member that the parsed JSON document does not have: as text, and as a
\* text whose characters matter.
AbsentMember == "(absent)"
AbsentChars == <<"(absent)">>

\* doc[key].as<String>(): the string of a member that holds one; of a member
\* that is absent, as of any value that is no string, its JSON text, and the
\* JSON text of a null variant is null (ArduinoJson 6, the library of
\* DynamicJsonDocument).
asString(member) == IF member = AbsentMember THEN "null" ELSE member
asChars(member) == IF member = AbsentChars THEN <<"n", "u", "l", "l">> ELSE member

\* The documents of which one member, or every member, is taken away.
AbsentBase ==
    {d \in Descriptors :
        /\ d.binarySize = 1
        /\ d.binaryHash = HexString(computeSHA256("a", 1))
        /\ d.signature \in {EmptyString,
                             Base64Text(SignatureBytes(computeSHA256("a", 1)))}}

\* The parsed JSON documents of a check response: every member present, one
\* member absent, or no member at all (binary_size absent reads as 0).
JsonDocuments ==
    Documents
        \cup {[d EXCEPT !.releaseID = AbsentMember] : d \in AbsentBase}
        \cup {[d EXCEPT !.binaryURL = AbsentMember] : d \in AbsentBase}
        \cup {[d EXCEPT !.binaryHash = AbsentChars] : d \in AbsentBase}
        \cup {[d EXCEPT !.signature = AbsentChars] : d \in AbsentBase}
        \cup {[releaseID |-> AbsentMember, binaryURL |-> AbsentMember,
                binaryHash |-> AbsentChars, binarySize |-> 0,
                signature |-> AbsentChars]}

\* The extraction of the members into *update.
Extracted(doc) ==
    [releaseID |-> asString(doc.releaseID),
     binaryURL |-> asString(doc.binaryURL),
     binaryHash |-> asChars(doc.binaryHash),
     binarySize |-> doc.binarySize,
     signature |-> asChars(doc.signature)]

\* FirmwareUpdate as default-constructed.
EmptyUpdate ==
    [releaseID |-> "", binaryURL |-> "", binaryHash |-> EmptyString,
     binarySize |-> 0, signature |-> EmptyString]

ErrorCodes == OTA_ERROR_NONE..OTA_ERROR_INVALID_RESPONSE

VARIABLES
    \* fields of the OTAClient object
    publicKey,          \* _publicKey
    verifySignatureOn,  \* _verifySignature
    lastError,          \* _lastError
    lastErrorMessage,   \* _lastErrorMessage
    \* the call in progress
    pc,                 \* the position of the running operation
    caller,             \* the public operation that was called
    update,             \* the FirmwareUpdate in use
    result,             \* the value the operation returned
    \* locals of checkForUpdate and checkAndUpdate
    checkCode,          \* httpCode of the check; 0 before the GET
    checkResult,        \* what checkForUpdate returned: "none", "true", "false"
    checkDoc,           \* the JSON document of the check response
    progressCallback,   \* _progressCallback is not null
    progressCalls,      \* the calls of the callback made by the download in progress
    \* locals of performUpdate
    firmwareData,       \* "null" or "buf"
    downloadedSize,
    success,
    \* locals of downloadFirmware
    contentLength,
    totalRead,
    served,             \* the image the server streams
    \* the heap block malloc returned
    allocSize,          \* its size; 0 when none was allocated
    block,              \* "none", "live" or "freed"
    frees,              \* calls of free on it
    heapCorrupt,        \* a memcpy wrote past its end
    \* what the collaborators saw in this call
    requests,           \* HTTP requests sent
    reports,            \* status reports posted
    installerCalls,     \* calls on Update
    hashChecked,        \* "none", "pass" or "fail"
    sigChecked,         \* "none", "pass" or "fail"
    \* running one call twice on the same answers (SpecReplay only)
    mode,               \* "off", "record", "replay" or "done"
    inLog,              \* the answers the environment gave to the first run
    inPos,              \* the next answer the second run takes
    ackLog,             \* which status reports of this run were acknowledged
    first               \* the first run: where it started, how it ended

clientVars == <<publicKey, verifySignatureOn, lastError, lastErrorMessage>>
callVars == <<pc, caller, update, result>>
checkVars == <<checkCode, checkResult, checkDoc>>
localVars == <<firmwareData, downloadedSize, success>>
downloadVars == <<contentLength, totalRead, served>>
heapVars == <<allocSize, block, frees, heapCorrupt>>
seenVars == <<requests, reports, installerCalls, hashChecked, sigChecked>>

callbackVars == <<progressCallback, progressCalls>>

replayVars == <<mode, inLog, inPos, ackLog, first>>

vars ==
    <<clientVars, callVars, checkVars, localVars, downloadVars, heapVars, seenVars,
      callbackVars, replayVars>>

(***************************************************************************)
(* The state after construction.                                           *)
(***************************************************************************)
NoFirst == [started |-> FALSE]

\* OTAClient::OTAClient, and the locals of a call not yet made.
Constructed(key) ==
    /\ publicKey = key
    /\ verifySignatureOn = TRUE
    /\ lastError = OTA_ERROR_NONE
    /\ lastErrorMessage = ""
    /\ pc = "idle"
    /\ caller = "none"
    /\ update = EmptyUpdate
    /\ result = "none"
    /\ checkCode = 0
    /\ checkResult = "none"
    /\ checkDoc = EmptyUpdate
    /\ progressCallback = FALSE
    /\ progressCalls = << >>
    /\ firmwareData = "null"
    /\ downloadedSize = 0
    /\ success = FALSE
    /\ contentLength = 0
    /\ totalRead = 0
    /\ served = "a"
    /\ allocSize = 0
    /\ block = "none"
    /\ frees = 0
    /\ heapCorrupt = FALSE
    /\ requests = << >>
    /\ reports = << >>
    /\ installerCalls = << >>
    /\ hashChecked = "none"
    /\ sigChecked = "none"

Init ==
    /\ \E key \in PublicKeys : Constructed(key)
    /\ mode = "off"
    /\ inLog = << >>
    /\ inPos = 1
    /\ ackLog = << >>
    /\ first = NoFirst

(***************************************************************************)
(* Helpers shared by the operations.                                       *)
(***************************************************************************)
\* The answers offered to the action `at`: any of S, or, in the second of
\* two runs, the answer the first run got at the same place.
Offered(S) ==
    IF mode = "replay"
    THEN IF inPos <= Len(inLog) THEN {x \in S : x = inLog[inPos]} ELSE {}
    ELSE S

Taken(in) ==
    /\ inLog' = IF mode = "record" THEN Append(inLog, in) ELSE inLog
    /\ inPos' = IF mode = "replay" THEN inPos + 1 ELSE inPos

\* reportStatus returned ack; performUpdate drops the value.
Acked(ack) == ackLog' = IF mode = "off" THEN ackLog ELSE Append(ackLog, ack)

\* OTAClient::setError.
setError(errorCode, errorMessage) ==
    /\ lastError' = errorCode
    /\ lastErrorMessage' = errorMessage

\* OTAClient::reportStatus: the report posted, and whether the control
\* plane acknowledged it.
reportStatus(releaseID, status, progress, errorMessage, httpCode) ==
    /\ reports' = Append(reports,
                         [releaseID |-> releaseID, status |-> status,
                          progress |-> progress, errorMessage |-> errorMessage])
    /\ requests' = Append(requests, "POST status")
    /\ Acked(httpCode = HTTP_CODE_OK)

HttpCodes == {HTTP_CODE_OK, HTTP_CODE_NOT_FOUND, HTTP_CODE_OTHER}
PostCodes == {HTTP_CODE_OK, HTTP_CODE_OTHER}

\* How a status report can be answered.  The first of two runs is the one
\* whose reports were all acknowledged: two runs that both end as that one
\* end alike.
PostAnswers == IF mode = "record" THEN {HTTP_CODE_OK} ELSE PostCodes

\* The locals of performUpdate and downloadFirmware as a call finds them.
FreshLocals ==
    /\ checkCode' = 0
    /\ checkResult' = "none"
    /\ checkDoc' = EmptyUpdate
    /\ progressCalls' = << >>
    /\ firmwareData' = "null"
    /\ downloadedSize' = 0
    /\ success' = FALSE
    /\ contentLength' = 0
    /\ totalRead' = 0
    /\ served' = "a"
    /\ allocSize' = 0
    /\ block' = "none"
    /\ frees' = 0
    /\ heapCorrupt' = FALSE
    /\ requests' = << >>
    /\ reports' = << >>
    /\ installerCalls' = << >>
    /\ hashChecked' = "none"
    /\ sigChecked' = "none"

(***************************************************************************)
(* checkForUpdate.                                                         *)
(***************************************************************************)
\* What the update check can be answered: a status code other than 200, a
\* body that does not parse, or a body with these fields.
CheckAnswers ==
    {[httpCode |-> c, parseError |-> FALSE, doc |-> EmptyUpdate] :
        c \in {HTTP_CODE_NOT_FOUND, HTTP_CODE_OTHER}}
        \cup {[httpCode |-> HTTP_CODE_OK, parseError |-> TRUE, doc |-> EmptyUpdate]}
        \cup {[httpCode |-> HTTP_CODE_OK, parseError |-> FALSE, doc |-> d] :
                d \in JsonDocuments}

\* The validation of the required fields.
MissingRequiredFields(u) ==
    u.releaseID = "" \/ u.binaryURL = "" \/ u.binaryHash = EmptyString

\* The value checkForUpdate returns on a non-null pointer.
checkForUpdateReturns(in) ==
    /\ in.httpCode = HTTP_CODE_OK
    /\ ~in.parseError
    /\ ~MissingRequiredFields(Extracted(in.doc))

\* A checkForUpdate that takes 404 for one more HTTP error.
CheckHttpError_AlwaysNetwork(httpCode) ==
    setError(OTA_ERROR_NETWORK, "HTTP error: " \o ToString(httpCode))

\* A checkForUpdate that takes every status other than 200 for "no update".
CheckHttpError_AlwaysNoUpdate(httpCode) ==
    setError(OTA_ERROR_NO_UPDATE, "No update available")

\* checkForUpdate on a status code other than 200.
CheckHttpError(httpCode) ==
    IF httpCode = HTTP_CODE_NOT_FOUND
    THEN setError(OTA_ERROR_NO_UPDATE, "No update available")
    ELSE setError(OTA_ERROR_NETWORK, "HTTP error: " \o ToString(httpCode))

\* What checkForUpdate does to *update and to the last error.
checkForUpdate(in) ==
    /\ requests' = Append(requests, "GET update")
    /\ checkCode' = in.httpCode
    /\ checkDoc' = in.doc
    /\ checkResult' = IF checkForUpdateReturns(in) THEN "true" ELSE "false"
    /\ IF in.httpCode # HTTP_CODE_OK
       THEN /\ CheckHttpError(in.httpCode)
            /\ UNCHANGED update
       ELSE IF in.parseError
       THEN /\ setError(OTA_ERROR_INVALID_RESPONSE, "JSON parse error: InvalidInput")
            /\ UNCHANGED update
       ELSE /\ update' = Extracted(in.doc)
            /\ IF MissingRequiredFields(Extracted(in.doc))
               THEN setError(OTA_ERROR_INVALID_RESPONSE,
                             "Missing required fields in update response")
               ELSE /\ lastError' = OTA_ERROR_NONE
                    /\ UNCHANGED lastErrorMessage

\* A caller calls checkForUpdate on its own, with a null pointer or a struct.
CheckForUpdateCall ==
    /\ pc = "idle"
    /\ mode = "off"
    /\ \/ /\ setError(OTA_ERROR_INVALID_RESPONSE, "Invalid update pointer")
          /\ result' = "false"
          /\ UNCHANGED <<update, checkVars, requests>>
       \/ \E in \in CheckAnswers :
            /\ checkForUpdate(in)
            /\ result' = IF checkForUpdateReturns(in) THEN "true" ELSE "false"
    /\ pc' = "returned"
    /\ caller' = "checkForUpdate"
    /\ UNCHANGED <<publicKey, verifySignatureOn>>
    /\ UNCHANGED <<localVars, downloadVars, heapVars, replayVars>>
    /\ UNCHANGED <<reports, installerCalls, hashChecked, sigChecked>>
    /\ UNCHANGED callbackVars

(***************************************************************************)
(* checkAndUpdate and performUpdate: entry.                                *)
(***************************************************************************)
\* Where a run of two starts: the call and the client it was made on.
StartOfRun(call, in) ==
    [started |-> TRUE, call |-> call, input |-> in,
     verifySignatureOn |-> verifySignatureOn, lastError |-> lastError,
     lastErrorMessage |-> lastErrorMessage]

Started(call, in) ==
    /\ first' = IF mode = "record" THEN StartOfRun(call, in) ELSE first
    /\ ackLog' = << >>
    /\ UNCHANGED mode

\* A checkAndUpdate that posts a FAILED report when the check failed with
\* something other than 404.
CheckFailedReturn_Reporting(in) ==
    /\ pc' = "returned"
    /\ result' = "false"
    /\ reports' = IF in.httpCode = HTTP_CODE_NOT_FOUND
                  THEN reports
                  ELSE Append(reports,
                              [releaseID |-> "", status |-> OTA_STATUS_FAILED,
                               progress |-> 0, errorMessage |-> "Update check failed"])

\* checkAndUpdate when checkForUpdate returned false: return false.
CheckFailedReturn(in) ==
    /\ pc' = "returned"
    /\ result' = "false"
    /\ UNCHANGED reports

\* checkAndUpdate: the check, and on success the entry to performUpdate.
CheckAndUpdate ==
    /\ pc = "idle"
    /\ mode # "done"
    /\ mode = "replay" => first.call = "checkAndUpdate"
    /\ \E in \in Offered(CheckAnswers) :
        /\ checkForUpdate(in)
        /\ IF checkForUpdateReturns(in)
           THEN /\ pc' = "report_downloading"
                /\ result' = "none"
                /\ UNCHANGED reports
           ELSE CheckFailedReturn(in)
        /\ Taken(in)
        /\ Started("checkAndUpdate", in)
    /\ caller' = "checkAndUpdate"
    /\ UNCHANGED <<publicKey, verifySignatureOn>>
    /\ UNCHANGED <<localVars, downloadVars, heapVars>>
    /\ UNCHANGED <<installerCalls, hashChecked, sigChecked>>
    /\ UNCHANGED callbackVars

\* A caller calls performUpdate on a struct of its own.
PerformUpdateCall ==
    /\ pc = "idle"
    /\ mode # "done"
    /\ mode = "replay" => first.call = "performUpdate"
    /\ \E u \in Offered(Descriptors) :
        /\ update' = u
        /\ Taken(u)
        /\ Started("performUpdate", u)
    /\ pc' = "report_downloading"
    /\ caller' = "performUpdate"
    /\ result' = "none"
    /\ UNCHANGED <<clientVars, checkVars>>
    /\ UNCHANGED <<localVars, downloadVars, heapVars, seenVars>>
    /\ UNCHANGED callbackVars

\* A performUpdate that gives up when its first report is not acknowledged.
ReportDownloading_AbortsUnacknowledged ==
    /\ pc = "report_downloading"
    /\ \E httpCode \in PostAnswers :
         /\ reportStatus(update.releaseID, OTA_STATUS_DOWNLOADING, 0, NullMessage, httpCode)
         /\ pc' = IF httpCode = HTTP_CODE_OK THEN "download" ELSE "cleanup"
    /\ UNCHANGED <<clientVars, caller, update, result, checkVars, localVars>>
    /\ UNCHANGED <<downloadVars, heapVars, installerCalls, hashChecked, sigChecked>>
    /\ UNCHANGED <<mode, inLog, inPos, first>>
    /\ UNCHANGED callbackVars

\* performUpdate: reportStatus(DOWNLOADING, 0) before the download.
ReportDownloading ==
    /\ pc = "report_downloading"
    /\ \E httpCode \in PostAnswers :
         reportStatus(update.releaseID, OTA_STATUS_DOWNLOADING, 0, NullMessage, httpCode)
    /\ pc' = "download"
    /\ UNCHANGED <<clientVars, caller, update, result, checkVars, localVars>>
    /\ UNCHANGED <<downloadVars, heapVars, installerCalls, hashChecked, sigChecked>>
    /\ UNCHANGED <<mode, inLog, inPos, first>>
    /\ UNCHANGED callbackVars

(***************************************************************************)
(* downloadFirmware.                                                       *)
(***************************************************************************)
\* How the GET of the binary can be answered: a status code other than 200,
\* no or a zero content length, a failing malloc, or a body being streamed.
DownloadAnswers ==
    {[httpCode |-> c, size |-> 0, mallocOk |-> TRUE, served |-> "a"] :
        c \in {HTTP_CODE_NOT_FOUND, HTTP_CODE_OTHER}}
        \cup {[httpCode |-> HTTP_CODE_OK, size |-> n, mallocOk |-> TRUE, served |-> "a"] :
                n \in {-1, 0}}
        \cup {[httpCode |-> HTTP_CODE_OK, size |-> n, mallocOk |-> FALSE, served |-> "a"] :
                n \in 1..MaxLen}
        \cup {[httpCode |-> HTTP_CODE_OK, size |-> n, mallocOk |-> TRUE, served |-> i] :
                n \in 1..MaxLen, i \in Images}

\* downloadFirmware up to the loop: the request, the length, the buffer.
DownloadBegin ==
    /\ pc = "download"
    /\ requests' = Append(requests, "GET binary")
    /\ \E in \in Offered(DownloadAnswers) :
        /\ Taken(in)
        /\ IF in.httpCode # HTTP_CODE_OK
           THEN /\ setError(OTA_ERROR_DOWNLOAD,
                            "Download failed: HTTP " \o ToString(in.httpCode))
                /\ pc' = "downloaded"
                /\ UNCHANGED <<firmwareData, downloadVars, heapVars>>
           ELSE IF in.size <= 0
           THEN /\ setError(OTA_ERROR_DOWNLOAD, "Invalid content length")
                /\ pc' = "downloaded"
                /\ contentLength' = in.size
                /\ UNCHANGED <<firmwareData, totalRead, served, heapVars>>
           ELSE IF ~in.mallocOk
           THEN /\ setError(OTA_ERROR_DOWNLOAD, "Memory allocation failed")
                /\ pc' = "downloaded"
                /\ contentLength' = in.size
                /\ UNCHANGED <<firmwareData, totalRead, served, heapVars>>
           ELSE /\ contentLength' = in.size
                /\ allocSize' = in.size
                /\ block' = "live"
                /\ firmwareData' = "buf"
                /\ totalRead' = 0
                /\ served' = in.served
                /\ pc' = "download_loop"
                /\ UNCHANGED <<lastError, lastErrorMessage, frees, heapCorrupt>>
    /\ downloadedSize' = 0
    /\ UNCHANGED <<publicKey, verifySignatureOn, caller, update, result, success>>
    /\ UNCHANGED <<checkVars, reports, installerCalls, hashChecked, sigChecked>>
    /\ UNCHANGED <<mode, ackLog, first>>
    /\ UNCHANGED callbackVars

\* The condition of the download loop.
LoopCondition(connected) ==
    connected /\ (contentLength > 0 \/ contentLength = -1)

Min(a, b) == IF a < b THEN a ELSE b

\* stream->available() in one pass of the loop, and, when the copy runs
\* past the end of the buffer (undefined behaviour), whether the device goes
\* on with a corrupted heap or crashes.
ChunkAnswers ==
    {[available |-> n, crash |-> c] :
        n \in IF totalRead >= MaxRead THEN {0} ELSE {0, 1, 2, BuffSize + 1},
        c \in BOOLEAN}

\* One pass of the download loop while its condition holds.  The passes that
\* find nothing to read change nothing, and are left out of a run of two.
DownloadChunk ==
    /\ pc = "download_loop"
    /\ LoopCondition(TRUE)
    /\ \E in \in Offered(ChunkAnswers) :
        LET bytesRead == Min(in.available, BuffSize)
            overflow == totalRead + bytesRead > allocSize
        IN  /\ in.crash => overflow
            /\ mode # "off" => bytesRead > 0
            /\ Taken(in)
            /\ totalRead' = totalRead + bytesRead
            /\ contentLength' =
                  IF in.available > 0 /\ contentLength > 0
                  THEN contentLength - bytesRead
                  ELSE contentLength
            /\ heapCorrupt' = (heapCorrupt \/ overflow)
            /\ progressCalls' =
                  IF progressCallback /\ bytesRead > 0 /\ ~in.crash
                  THEN Append(progressCalls,
                              [current |-> totalRead + bytesRead, total |-> contentLength])
                  ELSE progressCalls
            /\ pc' = IF in.crash THEN "crashed" ELSE "download_loop"
    /\ UNCHANGED progressCallback
    /\ UNCHANGED <<clientVars, caller, update, result, checkVars, localVars, served>>
    /\ UNCHANGED <<allocSize, block, frees, seenVars, mode, ackLog, first>>

\* The size downloadFirmware compares the total with: binarySize as size_t.
expectedSize == update.binarySize

\* A downloadFirmware that rejects only the streams that end short.
DownloadedSizeMismatch_ShortOnly(total, expected) == total < expected

\* The test downloadFirmware makes after the loop.
DownloadedSizeMismatch(total, expected) == total # expected

\* The loop ends, and downloadFirmware compares the total with expectedSize.
\* Freeing a block of a corrupted heap may crash the device.
DownloadEnd ==
    /\ pc = "download_loop"
    /\ \E in \in Offered({[connected |-> c, crash |-> x] : c, x \in BOOLEAN}) :
        /\ ~LoopCondition(in.connected)
        /\ in.crash => heapCorrupt /\ DownloadedSizeMismatch(totalRead, expectedSize)
        /\ Taken(in)
        /\ pc' = IF in.crash THEN "crashed" ELSE "downloaded"
    /\ IF DownloadedSizeMismatch(totalRead, expectedSize)
       THEN /\ setError(OTA_ERROR_DOWNLOAD, "Downloaded size mismatch")
            /\ block' = "freed"
            /\ frees' = frees + 1
            /\ firmwareData' = "null"
            /\ downloadedSize' = 0
       ELSE /\ downloadedSize' = totalRead
            /\ UNCHANGED <<lastError, lastErrorMessage, block, frees, firmwareData>>
    /\ UNCHANGED <<publicKey, verifySignatureOn, caller, update, result, success>>
    /\ UNCHANGED <<checkVars, downloadVars, allocSize, heapCorrupt, seenVars, mode, ackLog, first>>
    /\ UNCHANGED progressCallback
    /\ progressCalls' = << >>

(***************************************************************************)
(* performUpdate after the download.                                       *)
(***************************************************************************)
\* performUpdate's test of what downloadFirmware returned.
DownloadRejected == downloadedSize = 0 \/ firmwareData = "null"

\* The progress of the FAILED report after a failed download.
DownloadFailedProgress == 0

\* A performUpdate that leaves after a failed download without a report.
DownloadFailed_Silent ==
    /\ pc = "downloaded"
    /\ DownloadRejected
    /\ pc' = "cleanup"
    /\ UNCHANGED <<clientVars, caller, update, result, checkVars, localVars>>
    /\ UNCHANGED <<downloadVars, heapVars, seenVars>>
    /\ UNCHANGED <<callbackVars, replayVars>>

\* The download failed: report FAILED and leave.
DownloadFailed ==
    /\ pc = "downloaded"
    /\ DownloadRejected
    /\ \E httpCode \in PostAnswers :
         reportStatus(update.releaseID, OTA_STATUS_FAILED, DownloadFailedProgress,
                      lastErrorMessage, httpCode)
    /\ pc' = "cleanup"
    /\ UNCHANGED <<clientVars, caller, update, result, checkVars, localVars>>
    /\ UNCHANGED <<downloadVars, heapVars, installerCalls, hashChecked, sigChecked>>
    /\ UNCHANGED <<mode, inLog, inPos, first>>
    /\ UNCHANGED callbackVars

\* OTAClient::verifyHash.
verifyHash(data, size, expectedHash) ==
    equalsIgnoreCase(expectedHash, HexString(computeSHA256(data, size)))

\* A performUpdate that reports a failed installation at the progress of a
\* failed download.
InstallFailedProgress_AsDownload == DownloadFailedProgress

\* The progress of the FAILED report after installFirmware fails.
InstallFailedProgress == 50

\* A performUpdate that reports a failed check at the progress of the
\* installing stage.
VerifyFailedProgress_AsInstall == InstallFailedProgress

\* The progress of the FAILED report after a failed hash or signature check.
VerifyFailedProgress == 0

\* A performUpdate that goes on to the signature after a failed hash check.
AfterHashFailure_GoesOn == "verify_signature"

\* Where performUpdate goes after a failed hash check: goto cleanup.
AfterHashFailure == "cleanup"

\* The hash check of performUpdate, and the report when it fails.
VerifyHash ==
    /\ pc = "downloaded"
    /\ ~DownloadRejected
    /\ IF ~verifyHash(served, downloadedSize, update.binaryHash)
       THEN /\ setError(OTA_ERROR_VERIFICATION, "Hash verification failed")
            /\ \E httpCode \in PostAnswers :
                 reportStatus(update.releaseID, OTA_STATUS_FAILED, VerifyFailedProgress,
                              "Hash verification failed", httpCode)
            /\ hashChecked' = "fail"
            /\ pc' = AfterHashFailure
       ELSE /\ hashChecked' = "pass"
            /\ pc' = "verify_signature"
            /\ UNCHANGED <<lastError, lastErrorMessage, reports, requests, ackLog>>
    /\ UNCHANGED <<publicKey, verifySignatureOn, caller, update, result, localVars>>
    /\ UNCHANGED <<checkVars, downloadVars, heapVars, installerCalls, sigChecked>>
    /\ UNCHANGED <<mode, inLog, inPos, first>>
    /\ UNCHANGED callbackVars

\* OTAClient::verifySignature.
verifySignature(data, size, signature) ==
    LET sigBytes == base64Decode(signature)
        hash == computeSHA256(data, size)
    IN  /\ Len(sigBytes) # 0
        /\ publicKey = "pem"
        /\ sigBytes = SignatureBytes(hash)

\* Whether performUpdate calls verifySignature.
SignatureCheckRuns(u) == verifySignatureOn /\ Len(u.signature) > 0

\* The signature check of performUpdate, and the report when it fails.
VerifySignature ==
    /\ pc = "verify_signature"
    /\ IF SignatureCheckRuns(update)
       THEN IF ~verifySignature(served, downloadedSize, update.signature)
            THEN /\ setError(OTA_ERROR_VERIFICATION, "Signature verification failed")
                 /\ \E httpCode \in PostAnswers :
                      reportStatus(update.releaseID, OTA_STATUS_FAILED,
                                   VerifyFailedProgress,
                                   "Signature verification failed", httpCode)
                 /\ sigChecked' = "fail"
                 /\ pc' = "cleanup"
            ELSE /\ sigChecked' = "pass"
                 /\ pc' = "report_installing"
                 /\ UNCHANGED <<lastError, lastErrorMessage, reports, requests, ackLog>>
       ELSE /\ pc' = "report_installing"
            /\ UNCHANGED <<lastError, lastErrorMessage, reports, requests, ackLog, sigChecked>>
    /\ UNCHANGED <<publicKey, verifySignatureOn, caller, update, result, localVars>>
    /\ UNCHANGED <<checkVars, downloadVars, heapVars, installerCalls, hashChecked>>
    /\ UNCHANGED <<mode, inLog, inPos, first>>
    /\ UNCHANGED callbackVars

\* performUpdate: reportStatus(INSTALLING, 50) before the installation.
ReportInstalling ==
    /\ pc = "report_installing"
    /\ \E httpCode \in PostAnswers :
         reportStatus(update.releaseID, OTA_STATUS_INSTALLING, 50, NullMessage, httpCode)
    /\ pc' = "install"
    /\ UNCHANGED <<clientVars, caller, update, result, checkVars, localVars>>
    /\ UNCHANGED <<downloadVars, heapVars, installerCalls, hashChecked, sigChecked>>
    /\ UNCHANGED <<mode, inLog, inPos, first>>
    /\ UNCHANGED callbackVars

(***************************************************************************)
(* installFirmware.                                                        *)
(***************************************************************************)
\* The step of the installer that fails, if any.
InstallAnswers == {[failAt |-> f] : f \in {"none", "begin", "write", "end", "isFinished"}}

\* A call on Update, and whether it reported success.
Call(name, size, ok) == [call |-> name, size |-> size, ok |-> ok]

\* An installFirmware that goes through all four steps whatever they answer.
InstallerCallsMade_GoesOn(failAt, size) ==
    <<Call("begin", size, failAt # "begin"), Call("write", size, failAt # "write"),
      Call("end", 0, failAt # "end"), Call("isFinished", 0, failAt # "isFinished")>>

\* The calls installFirmware makes on Update when step failAt fails.
InstallerCallsMade(failAt, size) ==
    CASE failAt = "begin" -> <<Call("begin", size, FALSE)>>
      [] failAt = "write" -> <<Call("begin", size, TRUE), Call("write", size, FALSE),
                               Call("abort", 0, TRUE)>>
      [] failAt = "end" -> <<Call("begin", size, TRUE), Call("write", size, TRUE),
                             Call("end", 0, FALSE)>>
      [] OTHER -> <<Call("begin", size, TRUE), Call("write", size, TRUE),
                    Call("end", 0, TRUE), Call("isFinished", 0, failAt = "none")>>

\* The message installFirmware sets when step failAt fails.
InstallErrorMessage(failAt) ==
    CASE failAt = "begin" -> "Update begin failed: (errorString)"
      [] failAt = "write" -> "Update write failed: (errorString)"
      [] failAt = "end" -> "Update end failed: (errorString)"
      [] OTHER -> "Update not finished"

\* installFirmware, and performUpdate's report when it fails.
InstallFirmware ==
    /\ pc = "install"
    /\ \E in \in Offered(InstallAnswers) :
        /\ Taken(in)
        /\ installerCalls' = installerCalls \o InstallerCallsMade(in.failAt, downloadedSize)
        /\ IF in.failAt # "none"
           THEN /\ setError(OTA_ERROR_INSTALLATION, InstallErrorMessage(in.failAt))
                /\ \E httpCode \in PostAnswers :
                     reportStatus(update.releaseID, OTA_STATUS_FAILED,
                                  InstallFailedProgress,
                                  InstallErrorMessage(in.failAt), httpCode)
                /\ pc' = "cleanup"
           ELSE /\ pc' = "report_completed"
                /\ UNCHANGED <<lastError, lastErrorMessage, reports, requests, ackLog>>
    /\ UNCHANGED <<publicKey, verifySignatureOn, caller, update, result, localVars>>
    /\ UNCHANGED <<checkVars, downloadVars, heapVars, hashChecked, sigChecked, mode, first>>
    /\ UNCHANGED callbackVars

\* performUpdate: reportStatus(COMPLETED, 100), success, no error.
ReportCompleted ==
    /\ pc = "report_completed"
    /\ \E httpCode \in PostAnswers :
         reportStatus(update.releaseID, OTA_STATUS_COMPLETED, 100, NullMessage, httpCode)
    /\ success' = TRUE
    /\ lastError' = OTA_ERROR_NONE
    /\ pc' = "cleanup"
    /\ UNCHANGED <<publicKey, verifySignatureOn, lastErrorMessage, caller, update, result>>
    /\ UNCHANGED <<checkVars, firmwareData, downloadedSize, downloadVars, heapVars>>
    /\ UNCHANGED <<installerCalls, hashChecked, sigChecked>>
    /\ UNCHANGED <<mode, inLog, inPos, first>>
    /\ UNCHANGED callbackVars

\* A cleanup that frees whatever the pointer was.
BufferHeld_Always == TRUE

\* The test of the cleanup label: the pointer is not null.
BufferHeld == firmwareData # "null"

\* performUpdate's cleanup label: free the buffer, return success.  Freeing
\* a block of a corrupted heap may crash the device.
Cleanup ==
    /\ pc = "cleanup"
    /\ \E in \in Offered({[crash |-> x] : x \in BOOLEAN}) :
        /\ in.crash => heapCorrupt /\ BufferHeld
        /\ Taken(in)
        /\ pc' = IF in.crash THEN "crashed" ELSE "returned"
        /\ result' = IF in.crash THEN result ELSE IF success THEN "true" ELSE "false"
    /\ IF BufferHeld
       THEN /\ block' = "freed"
            /\ frees' = frees + 1
       ELSE UNCHANGED <<block, frees>>
    /\ UNCHANGED <<clientVars, caller, update, checkVars, localVars, downloadVars>>
    /\ UNCHANGED <<allocSize, heapCorrupt, seenVars, mode, ackLog, first>>
    /\ UNCHANGED callbackVars

(***************************************************************************)
(* Between calls.                                                          *)
(***************************************************************************)
\* The caller has the returned value; the locals of the call are gone.
Return ==
    /\ pc = "returned"
    /\ mode # "record"
    /\ pc' = "idle"
    /\ caller' = "none"
    /\ update' = EmptyUpdate
    /\ result' = "none"
    /\ FreshLocals
    /\ mode' = IF mode = "replay" THEN "done" ELSE mode
    /\ UNCHANGED <<clientVars, inLog, inPos, ackLog, first>>
    /\ UNCHANGED progressCallback

\* OTAClient::setVerifySignature.
SetVerifySignature ==
    /\ pc = "idle"
    /\ mode \in {"off", "record"}
    /\ \E enable \in BOOLEAN : verifySignatureOn' = enable
    /\ UNCHANGED <<publicKey, lastError, lastErrorMessage, callVars, checkVars, localVars>>
    /\ UNCHANGED <<downloadVars, heapVars, seenVars, replayVars>>
    /\ UNCHANGED callbackVars

\* OTAClient::setProgressCallback, with a callback or with a null pointer.
SetProgressCallback ==
    /\ pc = "idle"
    /\ mode = "off"
    /\ \E callback \in BOOLEAN : progressCallback' = callback
    /\ UNCHANGED <<clientVars, callVars, checkVars, localVars, downloadVars, heapVars>>
    /\ UNCHANGED <<seenVars, progressCalls, replayVars>>

\* After a crash the device restarts and constructs the client again.
Reboot ==
    /\ pc = "crashed"
    /\ mode # "record"
    /\ verifySignatureOn' = TRUE
    /\ lastError' = OTA_ERROR_NONE
    /\ lastErrorMessage' = ""
    /\ pc' = "idle"
    /\ caller' = "none"
    /\ update' = EmptyUpdate
    /\ result' = "none"
    /\ FreshLocals
    /\ mode' = IF mode = "replay" THEN "done" ELSE mode
    /\ UNCHANGED <<publicKey, inLog, inPos, ackLog, first>>
    /\ progressCallback' = FALSE

Next ==
    \/ CheckForUpdateCall
    \/ CheckAndUpdate
    \/ PerformUpdateCall
    \/ ReportDownloading
    \/ DownloadBegin
    \/ DownloadChunk
    \/ DownloadEnd
    \/ DownloadFailed
    \/ VerifyHash
    \/ VerifySignature
    \/ ReportInstalling
    \/ InstallFirmware
    \/ ReportCompleted
    \/ Cleanup
    \/ Return
    \/ SetVerifySignature
    \/ SetProgressCallback
    \/ Reboot

Spec == Init /\ [][Next]_vars

(***************************************************************************)
(* One call made twice on the same client with the same answers from the   *)
(* network, the heap and the installer; only the acknowledgements of the   *)
(* status reports are free in the second run.                              *)
(***************************************************************************)
\* What a call leaves behind: the returned value, the last error, the
\* reports and requests sent, the stages attempted and the buffer.
Outcome ==
    [pc |-> pc, result |-> result, update |-> update,
     verifySignatureOn |-> verifySignatureOn,
     lastError |-> lastError, lastErrorMessage |-> lastErrorMessage,
     checkResult |-> checkResult, requests |-> requests, reports |-> reports,
     hashChecked |-> hashChecked, sigChecked |-> sigChecked,
     installerCalls |-> installerCalls, success |-> success,
     downloadedSize |-> downloadedSize, totalRead |-> totalRead,
     firmwareData |-> firmwareData, block |-> block, frees |-> frees]

InitReplay ==
    /\ \E key \in PublicKeys : Constructed(key)
    /\ mode = "record"
    /\ inLog = << >>
    /\ inPos = 1
    /\ ackLog = << >>
    /\ first = NoFirst

\* The first run is over: keep how it ended and put the client back where
\* the run started, for the second run.
Replay ==
    /\ mode = "record"
    /\ pc \in {"returned", "crashed"}
    /\ caller \in {"checkAndUpdate", "performUpdate"}
    /\ mode' = "replay"
    /\ first' = [started |-> TRUE, call |-> first.call, outcome |-> Outcome,
                 acks |-> ackLog]
    /\ verifySignatureOn' = first.verifySignatureOn
    /\ lastError' = first.lastError
    /\ lastErrorMessage' = first.lastErrorMessage
    /\ pc' = "idle"
    /\ caller' = "none"
    /\ update' = EmptyUpdate
    /\ result' = "none"
    /\ FreshLocals
    /\ inPos' = 1
    /\ ackLog' = << >>
    /\ UNCHANGED <<publicKey, inLog>>
    /\ UNCHANGED progressCallback

\* The steps of a run of two: the setting of the flag before the call, the
\* call, and the start of the second run.
NextReplay ==
    \/ SetVerifySignature
    \/ CheckAndUpdate
    \/ PerformUpdateCall
    \/ ReportDownloading
    \/ DownloadBegin
    \/ DownloadChunk
    \/ DownloadEnd
    \/ DownloadFailed
    \/ VerifyHash
    \/ VerifySignature
    \/ ReportInstalling
    \/ InstallFirmware
    \/ ReportCompleted
    \/ Cleanup
    \/ Replay
    \/ Return
    \/ Reboot

SpecReplay == InitReplay /\ [][NextReplay]_vars

(***************************************************************************)
(* Properties.                                                             *)
(***************************************************************************)
\* The last status report of the call.
LastReport == reports[Len(reports)]

\* The call has left the download loop.
AfterDownloadLoop ==
    /\ block # "none"
    /\ pc \in {"downloaded", "verify_signature", "report_installing", "install",
               "report_completed", "cleanup", "returned"}

\* The installer has been called on the downloaded buffer.
InstallerStarted == installerCalls # << >>

\* C1: the installer is invoked only after the hash check has passed and,
\* when signature verification is enabled, the signature check has passed too.
C1_InstallerOnlyAfterRequiredChecks ==
    InstallerStarted =>
        /\ hashChecked = "pass"
        /\ verifySignatureOn => sigChecked = "pass"

\* C2: with signature verification enabled and an empty signature, a call
\* that reached verification ends FAILED with a verification error and never
\* calls the installer, whether or not the hash matches.  (Stated of the
\* calls whose copies stayed inside the buffer.)
C2_MissingSignatureIsVerificationError ==
    (/\ pc = "returned"
     /\ ~heapCorrupt
     /\ hashChecked # "none"
     /\ verifySignatureOn
     /\ update.signature = EmptyString)
        => /\ result = "false"
           /\ lastError = OTA_ERROR_VERIFICATION
           /\ LastReport.status = OTA_STATUS_FAILED
           /\ ~InstallerStarted

\* Every step of the installer succeeded.
InstallerSucceeded ==
    /\ Len(installerCalls) = 4
    /\ installerCalls[4].call = "isFinished"
    /\ pc \in {"report_completed", "cleanup", "returned"}
    /\ lastError # OTA_ERROR_INSTALLATION

\* COMPLETED was reported.
CompletedReported == \E i \in 1..Len(reports) : reports[i].status = OTA_STATUS_COMPLETED

\* C3: checkAndUpdate returns true exactly when the check gave a valid
\* descriptor, the download matched the expected size, the hash and the
\* required signature passed and every installer step succeeded; exactly
\* then COMPLETED is reported, with progress 100.  (Stated of the calls whose
\* copies stayed inside the buffer.)
C3_TrueOnlyViaCompleted ==
    (pc = "returned" /\ caller = "checkAndUpdate" /\ ~heapCorrupt)
        => /\ result = "true" <=>
                /\ checkResult = "true"
                /\ block # "none" /\ totalRead = update.binarySize
                /\ hashChecked = "pass"
                /\ verifySignatureOn => sigChecked = "pass"
                /\ InstallerSucceeded
           /\ result = "true" <=> CompletedReported
           /\ CompletedReported =>
                /\ LastReport.status = OTA_STATUS_COMPLETED
                /\ LastReport.progress = 100

\* C4: when the total read by the download loop differs from the expected
\* size, downloadFirmware sets the download error, frees the buffer, nulls
\* the pointer and returns 0; performUpdate reports FAILED with progress 0 and
\* runs neither verification nor the installer.
C4_SizeMismatchIsDownloadError ==
    (AfterDownloadLoop /\ totalRead # update.binarySize)
        => /\ lastError = OTA_ERROR_DOWNLOAD
           /\ lastErrorMessage = "Downloaded size mismatch"
           /\ firmwareData = "null" /\ downloadedSize = 0
           /\ block = "freed" /\ frees = 1
           /\ pc \in {"downloaded", "cleanup", "returned"}
           /\ hashChecked = "none" /\ sigChecked = "none" /\ ~InstallerStarted
           /\ pc \in {"cleanup", "returned"} =>
                /\ Len(reports) = 2
                /\ LastReport.status = OTA_STATUS_FAILED
                /\ LastReport.progress = 0
                /\ LastReport.errorMessage = "Downloaded size mismatch"
           /\ pc = "returned" => result = "false"

\* A call returned false after a stream longer than the expected size.
C4_Witness ==
    /\ pc = "returned"
    /\ AfterDownloadLoop
    /\ totalRead > update.binarySize
    /\ update.binarySize > 0
    /\ Len(reports) = 2

\* C5: a fetch that transferred fewer bytes than the declared content length
\* yields the download error and its buffer reaches neither verification nor
\* the installer, whatever the expected size.
C5_ShortTransferIsDownloadError ==
    (AfterDownloadLoop /\ totalRead < allocSize)
        => /\ lastError = OTA_ERROR_DOWNLOAD
           /\ hashChecked = "none" /\ sigChecked = "none" /\ ~InstallerStarted

\* The hash check or the signature check of the call returned false.
VerificationFailed == hashChecked = "fail" \/ sigChecked = "fail"

\* C6 as stated: after a failed hash or signature check the call ends FAILED
\* with the verification error and the FAILED report carries progress 50.
C6_VerificationFailureReportsFifty ==
    (VerificationFailed /\ pc \in {"cleanup", "returned"})
        => /\ lastError = OTA_ERROR_VERIFICATION
           /\ LastReport.status = OTA_STATUS_FAILED
           /\ LastReport.progress = 50
           /\ pc = "returned" => result = "false"

\* C6 as amended: after a failed hash check, or a failed signature check that
\* performUpdate ran, the call ends FAILED with the verification error and
\* the FAILED report carries progress 0, as the report of a failed download.
C6_VerificationFailureReportsZero ==
    /\ (VerificationFailed /\ pc \in {"cleanup", "returned"})
        => /\ lastError = OTA_ERROR_VERIFICATION
           /\ LastReport.status = OTA_STATUS_FAILED
           /\ LastReport.progress = 0
           /\ ~InstallerStarted
           /\ pc = "returned" => result = "false"
    /\ (hashChecked = "none" /\ pc \in {"cleanup", "returned"}
            /\ caller # "checkForUpdate" /\ checkResult # "false")
        => /\ LastReport.status = OTA_STATUS_FAILED
           /\ LastReport.progress = 0

\* A call returned after the signature check failed on a matching hash.
C6_Witness ==
    /\ pc = "returned"
    /\ hashChecked = "pass"
    /\ sigChecked = "fail"
    /\ totalRead = update.binarySize

\* C7: a checkAndUpdate whose check is answered 404 returns false with
\* NO_UPDATE and sends nothing but the check request: no status report, no
\* download, no installer call, no change to the client but the last error;
\* called again after such a call, it leaves the last error as it was too.
C7_NoUpdateHasNoSideEffect ==
    [][(pc = "idle" /\ caller' = "checkAndUpdate" /\ checkCode' = HTTP_CODE_NOT_FOUND)
        => /\ pc' = "returned"
           /\ result' = "false"
           /\ lastError' = OTA_ERROR_NO_UPDATE
           /\ lastErrorMessage' = "No update available"
           /\ requests' = <<"GET update">>
           /\ reports' = << >> /\ reports' = reports
           /\ installerCalls' = << >>
           /\ UNCHANGED <<publicKey, verifySignatureOn, localVars, downloadVars, heapVars>>
           /\ lastError = OTA_ERROR_NO_UPDATE => UNCHANGED <<lastError, lastErrorMessage>>
      ]_vars

\* checkAndUpdate returned after a check answered 404.
C7_Witness ==
    /\ pc = "returned"
    /\ caller = "checkAndUpdate"
    /\ checkCode = HTTP_CODE_NOT_FOUND
    /\ result = "false"

\* The check of checkAndUpdate failed with something other than NO_UPDATE.
CheckFailedOtherwise ==
    /\ pc = "returned"
    /\ caller = "checkAndUpdate"
    /\ checkResult = "false"
    /\ checkCode # HTTP_CODE_NOT_FOUND

\* C8 as stated: after a check that failed with NETWORK or INVALID_RESPONSE,
\* checkAndUpdate has recorded the error and posted a FAILED report before
\* it returns false.
C8_CheckFailureIsReported ==
    CheckFailedOtherwise
        => /\ result = "false"
           /\ lastError \in {OTA_ERROR_NETWORK, OTA_ERROR_INVALID_RESPONSE}
           /\ reports # << >>
           /\ LastReport.status = OTA_STATUS_FAILED

\* C8 as amended: after a check that failed with NETWORK or INVALID_RESPONSE,
\* checkAndUpdate has recorded the error and returns false without posting
\* any status report, as after NO_UPDATE.
C8_CheckFailureIsRecordedNotReported ==
    CheckFailedOtherwise
        => /\ result = "false"
           /\ lastError = IF checkCode = HTTP_CODE_OK
                          THEN OTA_ERROR_INVALID_RESPONSE
                          ELSE OTA_ERROR_NETWORK
           /\ reports = << >>
           /\ requests = <<"GET update">>

\* checkAndUpdate returned after a check answered with a server error.
C8_Witness ==
    /\ CheckFailedOtherwise
    /\ checkCode = HTTP_CODE_OTHER
    /\ lastError = OTA_ERROR_NETWORK

IsPrefix(s, t) == Len(s) <= Len(t) /\ SubSeq(t, 1, Len(s)) = s

\* C9: of two runs of one call on the same client with the same answers,
\* differing only in which status reports were acknowledged, the second
\* goes on wherever the first did, sends the same requests and reports and
\* makes the same installer calls in the same order, and ends with the same
\* returned value, last error, stages attempted and buffer.
C9_OutcomeIndependentOfAcks ==
    mode = "replay"
        => /\ IsPrefix(requests, first.outcome.requests)
           /\ IsPrefix(reports, first.outcome.reports)
           /\ IsPrefix(installerCalls, first.outcome.installerCalls)
           /\ pc \notin {"returned", "crashed"} => ENABLED NextReplay
           /\ pc \in {"returned", "crashed"} => Outcome = first.outcome

\* The second run returned true, and one of its three reports was answered
\* otherwise than in the first run.
C9_Witness ==
    /\ mode = "replay"
    /\ pc = "returned"
    /\ result = "true"
    /\ Len(ackLog) = 3
    /\ ackLog # first.acks
    /\ Outcome = first.outcome

\* The error code of the stage at which the call failed.
FailedStageError ==
    IF checkResult = "false"
    THEN IF checkCode = HTTP_CODE_NOT_FOUND THEN OTA_ERROR_NO_UPDATE
         ELSE IF checkCode = HTTP_CODE_OK THEN OTA_ERROR_INVALID_RESPONSE
         ELSE OTA_ERROR_NETWORK
    ELSE IF InstallerStarted THEN OTA_ERROR_INSTALLATION
    ELSE IF VerificationFailed THEN OTA_ERROR_VERIFICATION
    ELSE OTA_ERROR_DOWNLOAD

\* C10: whenever checkAndUpdate or performUpdate returns false, the last
\* error is not OTA_ERROR_NONE and names the stage that failed.  (Stated of
\* the calls whose copies stayed inside the buffer.)
C10_FailureNamesTheStage ==
    (/\ pc = "returned"
     /\ caller \in {"checkAndUpdate", "performUpdate"}
     /\ result = "false"
     /\ ~heapCorrupt)
        => /\ lastError # OTA_ERROR_NONE
           /\ lastError = FailedStageError

\* C11: the progress values of the status reports of one call are within
\* 0..100 and never decrease from one report to the next, on the success
\* path and on every failure path.
C11_ProgressMonotone ==
    /\ \A i \in 1..Len(reports) : reports[i].progress \in 0..100
    /\ \A i \in 1..Len(reports) : \A j \in i..Len(reports) :
            reports[i].progress <= reports[j].progress

\* A call that failed in the installer has made its three reports.
C11_Witness ==
    /\ pc = "returned"
    /\ Len(reports) = 3
    /\ reports[2].status = OTA_STATUS_INSTALLING
    /\ reports[3].status = OTA_STATUS_FAILED
    /\ reports[3].progress = 50

\* The JSON document lacks release_id, binary_url or binary_hash, or has it
\* empty.
RequiredMemberMissing(doc) ==
    \/ doc.releaseID \in {AbsentMember, ""}
    \/ doc.binaryURL \in {AbsentMember, ""}
    \/ doc.binaryHash \in {AbsentChars, EmptyString}

\* C12: after a check response that parsed and in which release_id,
\* binary_url or binary_hash is missing or empty, checkForUpdate has returned
\* false with INVALID_RESPONSE, and checkAndUpdate downloads, verifies and
\* installs nothing.
C12_MissingFieldIsInvalidResponse ==
    (checkCode = HTTP_CODE_OK /\ RequiredMemberMissing(checkDoc))
        => /\ checkResult = "false"
           /\ lastError = OTA_ERROR_INVALID_RESPONSE
           /\ requests = <<"GET update">>
           /\ block = "none"
           /\ hashChecked = "none"
           /\ sigChecked = "none"
           /\ ~InstallerStarted

\* C13: after a check answered with a status other than 200, checkForUpdate
\* has returned false; the error is NO_UPDATE exactly when the status was 404
\* and otherwise NETWORK with the status code in its message.
C13_NotFoundAndNetworkKeptApart ==
    (pc = "returned" /\ checkCode \notin {0, HTTP_CODE_OK})
        => /\ checkResult = "false"
           /\ result = "false"
           /\ (lastError = OTA_ERROR_NO_UPDATE) <=> (checkCode = HTTP_CODE_NOT_FOUND)
           /\ (lastError = OTA_ERROR_NETWORK) <=> (checkCode # HTTP_CODE_NOT_FOUND)
           /\ lastErrorMessage = IF checkCode = HTTP_CODE_NOT_FOUND
                                 THEN "No update available"
                                 ELSE "HTTP error: " \o ToString(checkCode)

\* checkForUpdate, called on its own, returned after a server error.
C13_Witness ==
    /\ pc = "returned"
    /\ caller = "checkForUpdate"
    /\ checkCode = HTTP_CODE_OTHER
    /\ lastError = OTA_ERROR_NETWORK
    /\ lastErrorMessage = "HTTP error: 500"

\* C14: a buffer is never freed twice, performUpdate goes on after
\* downloadFirmware freed the buffer only with a null pointer, and when
\* performUpdate returns the buffer that downloadFirmware allocated, if any,
\* has been freed exactly once.
C14_BufferFreedExactlyOnce ==
    /\ frees <= 1
    /\ block = "freed" <=> frees = 1
    /\ block = "none" => (frees = 0 /\ firmwareData = "null")
    /\ (block = "freed" /\ pc \notin {"returned", "crashed"}) => firmwareData = "null"
    /\ pc = "returned" => block # "live"

\* Calls returned with the buffer freed once: by downloadFirmware after a
\* size mismatch, or by the cleanup after a failed check or on success.
C14_Witness ==
    /\ pc = "returned"
    /\ block = "freed"
    /\ frees = 1
    /\ hashChecked = "fail"

\* The installer steps called, Update.abort left out.
InstallerSteps == SelectSeq(installerCalls, LAMBDA c : c.call # "abort")

\* An installer step has reported failure.
InstallerStepFailed ==
    \E i \in 1..Len(installerCalls) : ~installerCalls[i].ok

\* C15: the installer steps are called in the order begin(size),
\* write(size bytes), end, isFinished, each at most once; a step that fails
\* is the last one called; and after a failed step, a false isFinished
\* included, the error is OTA_ERROR_INSTALLATION, the last report is FAILED
\* at progress 50 with the error's message, and the call returns false.
C15_InstallerStepsInOrder ==
    /\ IsPrefix([i \in 1..Len(InstallerSteps) |-> InstallerSteps[i].call],
                <<"begin", "write", "end", "isFinished">>)
    /\ \A i \in 1..Len(InstallerSteps) :
            /\ i <= 2 => InstallerSteps[i].size = downloadedSize
            /\ i < Len(InstallerSteps) => InstallerSteps[i].ok
    /\ (InstallerStepFailed /\ pc \in {"cleanup", "returned"})
            => /\ lastError = OTA_ERROR_INSTALLATION
               /\ ~success
               /\ LastReport.status = OTA_STATUS_FAILED
               /\ LastReport.progress = 50
               /\ LastReport.errorMessage = lastErrorMessage
               /\ ~CompletedReported
               /\ pc = "returned" => result = "false"
    /\ (InstallerStarted /\ ~InstallerStepFailed) => Len(InstallerSteps) = 4

\* A call returned false after end succeeded and isFinished answered false.
C15_Witness ==
    /\ pc = "returned"
    /\ Len(installerCalls) = 4
    /\ installerCalls[3].ok
    /\ ~installerCalls[4].ok
    /\ lastErrorMessage = "Update not finished"
    /\ result = "false"

\* The download handed performUpdate a payload.
PayloadDownloaded ==
    /\ pc \in {"verify_signature", "report_installing", "install", "report_completed",
               "cleanup", "returned"}
    /\ downloadedSize > 0

\* C16: a payload that the download handed over has had its hash checked
\* before anything else is done with it; the signature check is attempted
\* only after the hash check passed, so never after it failed, whatever the
\* verification flag and the signature are; nor is the installer.
C16_HashCheckedFirst ==
    /\ PayloadDownloaded => hashChecked # "none"
    /\ sigChecked # "none" => hashChecked = "pass"
    /\ hashChecked = "fail" => (sigChecked = "none" /\ ~InstallerStarted)
    /\ InstallerStarted => hashChecked = "pass"

\* The hash check failed on a payload that came with a signature, with
\* verification enabled.
C16_Witness ==
    /\ pc = "returned"
    /\ hashChecked = "fail"
    /\ verifySignatureOn
    /\ Len(update.signature) > 1
    /\ sigChecked = "none"

\* C17: with a progress callback registered, the callback has been called
\* once for every chunk appended, the last time with current equal to the
\* running total, and every time with total equal to the declared content
\* length; with none registered it has not been called.  (Stated of the
\* downloads whose copies stayed inside the buffer.)
C17_ProgressCallbackArguments ==
    (pc = "download_loop" /\ ~heapCorrupt)
        => /\ ~progressCallback => progressCalls = << >>
           /\ progressCallback =>
                /\ (totalRead > 0) <=> (progressCalls # << >>)
                /\ progressCalls # << >> =>
                        progressCalls[Len(progressCalls)].current = totalRead
                /\ \A i \in 1..Len(progressCalls) :
                        progressCalls[i].total = allocSize

\* C18: the download loop goes on only while fewer bytes than the declared
\* content length have been received: once the running total has reached
\* the declared length the loop condition is false, however the stream was
\* cut into reads and even when more bytes arrived than were declared.
C18_LoopStopsAtDeclaredLength ==
    (pc = "download_loop" /\ totalRead >= allocSize) => ~LoopCondition(TRUE)

\* C19: the running total of bytes copied into the buffer never exceeds the
\* size the buffer was allocated with.
C19_TotalWithinBuffer ==
    block = "live" => totalRead <= allocSize

\* The statuses of the reports of the call, in the order sent.
ReportedStatuses == [i \in 1..Len(reports) |-> reports[i].status]

\* A COMPLETED or FAILED report.
Terminal(status) == status \in {OTA_STATUS_COMPLETED, OTA_STATUS_FAILED}

\* C20: the reports of a performUpdate call start with DOWNLOADING at
\* progress 0; INSTALLING, at 50, comes only second; a COMPLETED or FAILED
\* report is the last one sent; and when the call returns, its last report,
\* and only that one, is COMPLETED or FAILED.
C20_ReportsInPipelineOrder ==
    /\ reports # << >> =>
            /\ reports[1].status = OTA_STATUS_DOWNLOADING
            /\ reports[1].progress = 0
    /\ \A i \in 1..Len(reports) :
            /\ reports[i].status = OTA_STATUS_DOWNLOADING => i = 1
            /\ reports[i].status = OTA_STATUS_INSTALLING
                    => (i = 2 /\ reports[i].progress = 50)
            /\ Terminal(reports[i].status) => i = Len(reports)
    /\ Len(reports) <= 3
    /\ (pc \in {"cleanup", "returned"} /\ caller = "performUpdate")
            => (reports # << >> /\ Terminal(LastReport.status))
    /\ (pc \in {"cleanup", "returned"} /\ caller = "checkAndUpdate" /\ checkResult = "true")
            => (reports # << >> /\ Terminal(LastReport.status))
    /\ (reports # << >> /\ Terminal(LastReport.status))
            => pc \in {"cleanup", "returned", "crashed"}

\* A performUpdate call returned after DOWNLOADING, INSTALLING, COMPLETED.
C20_Witness ==
    /\ pc = "returned"
    /\ caller = "performUpdate"
    /\ ReportedStatuses =
          <<OTA_STATUS_DOWNLOADING, OTA_STATUS_INSTALLING, OTA_STATUS_COMPLETED>>

=============================================================================
